---------------------------- MODULE Spec2Model ----------------------------
(***************************************************************************)
(* A model of monocat: the command-line client that resolves, creates or   *)
(* updates a GitHub release and uploads artifacts as release assets.       *)
(*                                                                         *)
(* Two specifications share the module:                                    *)
(*   Spec      the invocation of cli.main(): client construction, the      *)
(*             get-release / update-release actions, the requests they     *)
(*             issue through GitHubClient._request and the exit of main;   *)
(*   SpecHttp  the pure header parser monocat._http.ContentType applied to *)
(*             bounded header strings.                                     *)
(*                                                                         *)
(* Text is modelled as a sequence of lexemes: a lexeme is one delimiter    *)
(* character ("/", ";", "=", " ") or one word of characters that are none  *)
(* of these.  A character class of the regular expressions below holds of  *)
(* a word exactly when it holds of each of its characters.                 *)
(***************************************************************************)
EXTENDS Integers, Sequences, FiniteSets, TLC

VARIABLES
    \* ---- cli.main() and the actions ----
    pc,              \* position of the invocation
    arguments,       \* the parsed command line (argparse namespace)
    env_token,       \* os.environ.get('GITHUB_TOKEN')
    existing_release,\* UpdateReleaseAction: the lookup's result
    request,         \* UpdateReleaseAction: the ReleaseRequest built
    release,         \* UpdateReleaseAction: the created / updated release
    index,           \* upload_assets: position in artifact_paths
    response,        \* upload_assets: the list of new assets
    open_files,      \* artifact file handles currently open
    requests,        \* every HTTP request issued, in order
    last,            \* the call of _request the step just taken made, if it made one
    raised,          \* the exception propagating, or NoException
    result,          \* the action's return value
    exit,            \* how main() ended
    \* ---- ContentType parser ----
    hpc,             \* position of the parser run
    header,          \* the response's Content-Type header
    content_type,    \* ContentType.from_response(response), or a ContentType constructed
    call,            \* the method called on the parsed object, its argument and what it returned
    link_header      \* WebLinkHeader.from_value(value).links

cli_vars == <<pc, arguments, env_token, existing_release, request, release,
              index, response, open_files, requests, last, raised, result, exit>>
http_vars == <<hpc, header, content_type, call, link_header>>
vars == <<cli_vars, http_vars>>

-----------------------------------------------------------------------------
(* Bounds *)
MaxHeaderLen == 4      \* arbitrary header strings up to this many lexemes
MaxArtifacts == 2      \* artifact paths on the command line
MaxAssets == 2         \* assets already on a release
MaxCallLen == 3        \* header strings whose ContentType has its methods called
MaxLinkLen == 3        \* arbitrary Link header strings up to this many lexemes
MaxLinks == 2          \* links in a composed Link header

-----------------------------------------------------------------------------
(* Python values *)
None == "None"                    \* None among atoms
NoneStr == <<"<None>">>           \* None among strings (sequences of lexemes)
NoneObj == [none |-> TRUE]        \* None among objects (records)
Unbound == [unbound |-> TRUE]     \* a local variable not yet assigned
NoHeader == <<"<absent>">>        \* the response carries no such header

Range(s) == {s[i] : i \in 1..Len(s)}

RECURSIVE SeqsUpTo(_, _)
SeqsUpTo(S, n) ==
    IF n = 0 THEN {<< >>}
    ELSE LET shorter == SeqsUpTo(S, n - 1)
         IN  shorter \cup {Append(s, x) : s \in {t \in shorter : Len(t) = n - 1}, x \in S}

-----------------------------------------------------------------------------
(***************************************************************************)
(* monocat._http.ContentType                                               *)
(***************************************************************************)
Delimiters == {"/", ";", "=", " "}
Words == {"application", "json", "JSON", "charset", "Charset", "utf-8"}
Lexemes == Delimiters \cup Words

IsSpace(c) == c = " "                        \* \s
TypeChar(c) == c \notin {"/", " "}           \* [^/\s]
SubtypeChar(c) == c \notin {";", " "}        \* [^;\s]
AttributeChar(c) == c # "="                  \* [^=]
ValueChar(c) == TRUE                         \* .

Slice(s, from, to) == [k \in 1..(to - from + 1) |-> s[from + k - 1]]


\* ContentType(type, subtype, attribute=None, value=None)
ContentType(type, subtype, attribute, value) ==
    [type |-> type, subtype |-> subtype, attribute |-> attribute, value |-> value]

\* The ways FORMAT matches the whole of s: i is the last position of the type
\* group, j the last of the subtype group, and either g = 0 (the optional
\* parameter group did not take part) or g = 1 with a the first position of
\* the attribute group and e the position of the "=" that ends it.
FormatSplits(s) ==
    LET n == Len(s)
    IN  {m \in [i : 1..n, j : 1..n, g : {0}, a : {0}, e : {0}] :
            /\ (\A k \in (1)..(m.i) : TypeChar(s[k]))
            /\ m.i + 1 <= n /\ s[m.i + 1] = "/"
            /\ m.j >= m.i + 2 /\ (\A k \in (m.i + 2)..(m.j) : SubtypeChar(s[k]))
            /\ m.j = n}
        \cup
        {m \in [i : 1..n, j : 1..n, g : {1}, a : 1..n, e : 1..n] :
            /\ (\A k \in (1)..(m.i) : TypeChar(s[k]))
            /\ m.i + 1 <= n /\ s[m.i + 1] = "/"
            /\ m.j >= m.i + 2 /\ (\A k \in (m.i + 2)..(m.j) : SubtypeChar(s[k]))
            /\ \E semi \in (m.j + 1)..n :
                  /\ s[semi] = ";"
                  /\ (\A k \in (m.j + 1)..(semi - 1) : IsSpace(s[k]))
                  /\ m.a > semi /\ (\A k \in (semi + 1)..(m.a - 1) : IsSpace(s[k]))
            /\ m.e > m.a /\ (\A k \in (m.a)..(m.e - 1) : AttributeChar(s[k]))
            /\ s[m.e] = "="
            /\ m.e + 1 <= n /\ (\A k \in (m.e + 1)..(n) : ValueChar(s[k]))}

\* A backtracking matcher tries the longer repetition first and prefers to
\* enter an optional group, so of two matches it returns the one that is
\* greater at the first quantifier where they differ.
Preferred(m1, m2) ==
    \/ m1.i > m2.i
    \/ m1.i = m2.i /\ m1.j > m2.j
    \/ m1.i = m2.i /\ m1.j = m2.j /\ m1.g > m2.g
    \/ m1.i = m2.i /\ m1.j = m2.j /\ m1.g = m2.g /\ m1.a > m2.a
    \/ m1.i = m2.i /\ m1.j = m2.j /\ m1.g = m2.g /\ m1.a = m2.a /\ m1.e > m2.e

\* match.groupdict() of the match m of s: a group that took no part is None
groupdict(s, m) ==
    [type      |-> Slice(s, 1, m.i),
     subtype   |-> Slice(s, m.i + 2, m.j),
     attribute |-> IF m.g = 1 THEN Slice(s, m.a, m.e - 1) ELSE NoneStr,
     value     |-> IF m.g = 1 THEN Slice(s, m.e + 1, Len(s)) ELSE NoneStr]

\* the match the matcher returns among the matches ms of s, or None
first_match(s, ms) ==
    IF ms = {} THEN NoneObj
    ELSE groupdict(s, CHOOSE x \in ms : \A y \in ms : y = x \/ Preferred(x, y))

\* FORMAT.match(s): None, or the match's groupdict()
FORMAT_match(s) == first_match(s, FormatSplits(s))

\* response.getheader('Content-Type', '')
getheader(h) == IF h = NoHeader THEN << >> ELSE h

\* from_match with another fallback content type
from_match_octet_stream(content_type_match) ==
    IF content_type_match = NoneObj
    THEN ContentType(<<"application">>, <<"octet-stream">>, NoneStr, NoneStr)
    ELSE ContentType(content_type_match.type, content_type_match.subtype,
                     content_type_match.attribute, content_type_match.value)

\* from_response, from the match on
from_match(content_type_match) ==
    IF content_type_match = NoneObj
    THEN ContentType(<<"text">>, <<"plain">>, NoneStr, NoneStr)
    ELSE ContentType(content_type_match.type, content_type_match.subtype,
                     content_type_match.attribute, content_type_match.value)

\* ContentType.from_response(response)
from_response(h) == from_match(FORMAT_match(getheader(h)))

\* The headers the parser is applied to: every string of at most MaxHeaderLen
\* lexemes, the absent header, and the well-formed headers with one parameter.
WellFormedHeaders ==
    {t \o <<"/">> \o s \o p :
        t \in {<<"application">>, <<"json">>},
        s \in {<<"json">>, <<"JSON">>},
        p \in {<< >>} \cup
              {w1 \o <<";">> \o w2 \o a \o <<"=">> \o v :
                  w1 \in {<< >>, <<" ">>}, w2 \in {<< >>, <<" ">>},
                  a \in {<<"charset">>, <<"Charset">>, <<"json">>},
                  v \in {<<"utf-8">>, <<"utf-8", ";", "json", "=", "JSON">>}}}

Headers == {NoHeader} \cup SeqsUpTo(Lexemes, MaxHeaderLen) \cup WellFormedHeaders

HttpInit ==
    /\ hpc = "response"
    /\ header \in Headers
    /\ content_type = NoneObj
    /\ call = NoneObj
    /\ link_header = NoneObj

\* content_type = ContentType.from_response(response)
FromResponse ==
    /\ hpc = "response"
    /\ content_type' = from_response(header)
    /\ hpc' = "parsed"
    /\ UNCHANGED <<header, call, link_header>>

\* str.lower() and str.upper(), word by word
lower(s) ==
    [k \in 1..Len(s) |->
        CASE s[k] = "JSON" -> "json"
          [] s[k] = "Charset" -> "charset"
          [] s[k] = "UTF-8" -> "utf-8"
          [] OTHER -> s[k]]

upper(s) ==
    [k \in 1..Len(s) |->
        CASE s[k] = "json" -> "JSON"
          [] s[k] = "utf-8" -> "UTF-8"
          [] s[k] = "charset" -> "CHARSET"
          [] s[k] = "application" -> "APPLICATION"
          [] OTHER -> s[k]]

\* the truth value of a str or None
TruthyStr(s) == s # NoneStr /\ s # << >>

\* charset lower-casing the value it returns
charset_lowered(ct, default) ==
    IF TruthyStr(ct.attribute) /\ lower(ct.attribute) = <<"charset">> /\ TruthyStr(ct.value)
    THEN lower(ct.value)
    ELSE upper(default)

\* ContentType.charset(default)
charset(ct, default) ==
    IF TruthyStr(ct.attribute) /\ lower(ct.attribute) = <<"charset">> /\ TruthyStr(ct.value)
    THEN ct.value
    ELSE upper(default)

\* is_json comparing without lower-casing
is_json_case_sensitive(ct) == ct.type \o <<"/">> \o ct.subtype = <<"application", "/", "json">>

\* is_json false for a content type that carries a parameter
is_json_without_parameter(ct) ==
    /\ lower(ct.type \o <<"/">> \o ct.subtype) = <<"application", "/", "json">>
    /\ ~TruthyStr(ct.attribute) /\ ~TruthyStr(ct.value)

\* ContentType.is_json()
is_json(ct) == lower(ct.type \o <<"/">> \o ct.subtype) = <<"application", "/", "json">>

\* "=".join(operand for operand in operands if operand)
RECURSIVE join(_, _)
join(separator, operands) ==
    IF operands = << >> THEN << >>
    ELSE IF ~TruthyStr(Head(operands)) THEN join(separator, Tail(operands))
         ELSE LET rest == join(separator, Tail(operands))
              IN  IF rest = << >> /\ \A k \in 1..Len(Tail(operands)) : ~TruthyStr(Tail(operands)[k])
                  THEN Head(operands)
                  ELSE Head(operands) \o separator \o rest

\* str without the space that follows the ";"
str_no_space(ct) ==
    IF TruthyStr(ct.attribute) \/ TruthyStr(ct.value)
    THEN ct.type \o <<"/">> \o ct.subtype \o <<";">> \o join(<<"=">>, <<ct.attribute, ct.value>>)
    ELSE ct.type \o <<"/">> \o ct.subtype

\* ContentType.__str__()
str(ct) ==
    IF TruthyStr(ct.attribute) \/ TruthyStr(ct.value)
    THEN ct.type \o <<"/">> \o ct.subtype \o <<";", " ">>
         \o join(<<"=">>, <<ct.attribute, ct.value>>)
    ELSE ct.type \o <<"/">> \o ct.subtype

\* charset(): the parameter left out takes the signature's default 'UTF-8'
NotGiven == <<"<not given>">>
charset_default(default) == IF default = NotGiven THEN <<"UTF-8">> ELSE default

\* the defaults a caller hands to charset()
Defaults == {NotGiven, <<"utf-8">>, <<"json">>}

\* ContentType(type=..., subtype=..., attribute=..., value=...) built directly
ConstructedTypes ==
    [type : {<<"application">>, <<"json">>},
     subtype : {<<"json">>, <<"JSON">>},
     attribute : {NoneStr, << >>, <<"charset">>, <<"Charset">>, <<"json">>},
     value : {NoneStr, << >>, <<"utf-8">>, <<"JSON">>}]

\* the headers parsed before a method is called
CallHeaders == {NoHeader} \cup SeqsUpTo(Lexemes, MaxCallLen) \cup WellFormedHeaders

ContentTypeInit ==
    /\ hpc = "response"
    /\ header \in CallHeaders
    /\ content_type = NoneObj
    /\ call = NoneObj
    /\ link_header = NoneObj

\* ContentType(...) built by the caller, no response involved
NewContentType ==
    /\ hpc = "response"
    /\ header = NoHeader
    /\ content_type' \in ConstructedTypes
    /\ hpc' = "constructed"
    /\ UNCHANGED <<header, call, link_header>>

\* a method of content_type returns
Called(method, default, returned) ==
    /\ hpc \in {"parsed", "constructed"}
    /\ call' = [method |-> method, parsed |-> (hpc = "parsed"),
                argument |-> default, returned |-> returned]
    /\ hpc' = "called"
    /\ UNCHANGED <<header, content_type, link_header>>

\* str(content_type)
Str == Called("__str__", NotGiven, str(content_type))

\* content_type.charset() / content_type.charset(default)
Charset == \E default \in Defaults :
    Called("charset", default, charset(content_type, charset_default(default)))

\* content_type.is_json()
IsJson == Called("is_json", NotGiven, is_json(content_type))

-----------------------------------------------------------------------------
(***************************************************************************)
(* monocat._http.WebLinkHeader                                             *)
(***************************************************************************)
LinkDelimiters == {"<", ">", ",", ";", "=", " ", "\""}
LinkWords == {"rel", "next", "u"}
LinkLexemes == LinkDelimiters \cup LinkWords

\* the first position from `from` on where s holds c, or 0
find(s, c, from) ==
    IF \E k \in from..Len(s) : s[k] = c
    THEN CHOOSE k \in from..Len(s) : s[k] = c /\ \A l \in from..(k - 1) : s[l] # c
    ELSE 0

\* the first position from `from` on where s holds no space: what " *" leaves
skip_spaces(s, from) ==
    IF \E k \in from..Len(s) : s[k] # " "
    THEN CHOOSE k \in from..Len(s) : s[k] # " " /\ \A l \in from..(k - 1) : s[l] = " "
    ELSE Len(s) + 1

\* (?:, *)?<(?P<url>[^>]+)>(?:; *)? matched with "<" at o and ">" at c
link_match(s, p, o, c) ==
    IF o <= Len(s) /\ s[o] = "<" /\ c > o + 1
    THEN [start |-> p, url_first |-> o + 1, url_last |-> c - 1,
          end |-> IF c + 1 <= Len(s) /\ s[c + 1] = ";" THEN skip_spaces(s, c + 2) - 1 ELSE c]
    ELSE NoneObj

\* the link pattern matched at p: after ", *" when s[p] is a comma
link_match_from(s, p, o) == link_match(s, p, o, find(s, ">", o + 1))
link_match_at(s, p) ==
    link_match_from(s, p, IF s[p] = "," THEN skip_spaces(s, p + 1) ELSE p)

\* re.finditer(link pattern, value) from pos on: leftmost first, no overlap
RECURSIVE finditer_links(_, _)
finditer_links(s, pos) ==
    IF pos > Len(s) THEN << >>
    ELSE IF link_match_at(s, pos) = NoneObj THEN finditer_links(s, pos + 1)
         ELSE <<link_match_at(s, pos)>> \o finditer_links(s, link_match_at(s, pos).end + 1)

\* (?P<value>(?:"[^"]+"|[^;]+)?) after the "=" at e: the last position of the
\* value, e itself when the value is empty
value_end(t, e, quote, semi) ==
    IF e + 1 <= Len(t) /\ t[e + 1] = "\"" /\ quote > e + 2 THEN quote
    ELSE IF semi = 0 THEN Len(t) ELSE semi - 1

\* (?P<key>[^=]+)= with the "=" at e, after the prefix "; *" when t[p] is ";":
\* the first position of the key.  When nothing but the prefix precedes the
\* "=", the prefix gives its last character back to the key.
key_first(t, p, q, e) ==
    IF t[p] # ";" THEN p
    ELSE IF q < e THEN q
    ELSE e - 1

\* (?:; *)?(?P<key>[^=]+)=(?P<value>...) matched at p with the "=" at e
param_match(t, p, e) ==
    IF t[p] = "=" \/ e = 0 THEN NoneObj
    ELSE [key |-> Slice(t, key_first(t, p, skip_spaces(t, p + 1), e), e - 1),
          value |-> Slice(t, e + 1, value_end(t, e, find(t, "\"", e + 2), find(t, ";", e + 1))),
          end |-> value_end(t, e, find(t, "\"", e + 2), find(t, ";", e + 1))]

param_match_at(t, p) == param_match(t, p, find(t, "=", p + 1))

\* re.finditer(parameter pattern, params) from pos on
RECURSIVE finditer_params(_, _)
finditer_params(t, pos) ==
    IF pos > Len(t) THEN << >>
    ELSE IF param_match_at(t, pos) = NoneObj THEN finditer_params(t, pos + 1)
         ELSE <<param_match_at(t, pos)>> \o finditer_params(t, param_match_at(t, pos).end + 1)

\* str.strip(' "')
RECURSIVE strip(_)
strip(v) ==
    IF v = << >> THEN v
    ELSE IF Head(v) \in {" ", "\""} THEN strip(Tail(v))
    ELSE IF v[Len(v)] \in {" ", "\""} THEN strip(SubSeq(v, 1, Len(v) - 1))
    ELSE v

\* {param['key']: param['value'].strip(' "') for param in params_matches}:
\* a later key replaces an equal earlier one
NoParams == [k \in {} |-> << >>]
dict_set(d, key, value) ==
    [k \in DOMAIN d \cup {key} |-> IF k = key THEN value ELSE d[k]]
RECURSIVE params_dict(_)
params_dict(ms) ==
    IF ms = << >> THEN NoParams
    ELSE dict_set(params_dict(SubSeq(ms, 1, Len(ms) - 1)),
                  ms[Len(ms)].key, strip(ms[Len(ms)].value))

\* WebLink(url=..., params=...)
WebLink(url, params) == [url |-> url, params |-> params]

\* from_value: the link built from the i-th match
link_of(value, ms, i) ==
    WebLink(Slice(value, ms[i].url_first, ms[i].url_last),
            params_dict(finditer_params(
                Slice(value, ms[i].end + 1,
                      IF i < Len(ms) THEN ms[i + 1].start - 1 ELSE Len(value)), 1)))

links_of(value, ms) == [i \in 1..Len(ms) |-> link_of(value, ms, i)]

\* WebLinkHeader.from_value(value).links
from_value(value) == links_of(value, finditer_links(value, 1))

\* rel scanning the links in header order
rel_forward(links, value) ==
    IF \E i \in 1..Len(links) :
          <<"rel">> \in DOMAIN links[i].params /\ links[i].params[<<"rel">>] = value
    THEN links[CHOOSE i \in 1..Len(links) :
                  /\ <<"rel">> \in DOMAIN links[i].params
                  /\ links[i].params[<<"rel">>] = value
                  /\ \A j \in 1..(i - 1) :
                        ~(<<"rel">> \in DOMAIN links[j].params
                          /\ links[j].params[<<"rel">>] = value)]
    ELSE NoneObj

\* link.params.get('rel') == value
has_rel(link, value) ==
    IF <<"rel">> \in DOMAIN link.params THEN link.params[<<"rel">>] = value ELSE FALSE

\* WebLinkHeader.rel(value): the first match of reversed(self.links)
rel(links, value) ==
    IF \E i \in 1..Len(links) : has_rel(links[i], value)
    THEN links[CHOOSE i \in 1..Len(links) :
                  /\ has_rel(links[i], value)
                  /\ \A j \in (i + 1)..Len(links) : ~has_rel(links[j], value)]
    ELSE NoneObj

\* The Link header values parsed: every string of at most MaxLinkLen lexemes,
\* and the headers composed of at most MaxLinks links, each a bracketed URL
\* followed by one of the parameter texts below.
ParamTexts ==
    {<< >>,
     <<";", "rel", "=", "next">>,
     <<";", " ", "rel", "=", "\"", "next", "\"">>,
     <<";", " ", "rel", "=", "\"", "next", ";", "u", "\"">>,
     <<";", " ", "rel", "=", "\"", " ", "next", " ", "\"", " ">>,
     <<";", " ", "rel", "=", "u", ";", " ", "u", "=", "next">>,
     <<";", " ", "u", "=", "next", ";", "rel", "=", "next">>,
     <<";", " ", "rel", "=", "u", ";", " ", "rel", "=", "next">>,
     <<";", " ", "rel", "=">>,
     <<" ", ";", " ", "rel", "=", "next">>,
     <<";", " ", "u", ";", " ", "rel", "=", "next">>}

LinkTexts == {<<"<">> \o url \o <<">">> \o params :
                 url \in {<<"u">>, <<"next">>}, params \in ParamTexts}

RECURSIVE LinkLists(_)
LinkLists(n) ==
    IF n = 1 THEN LinkTexts
    ELSE LinkLists(n - 1) \cup
         {value \o separator \o link :
             value \in LinkLists(n - 1), separator \in {<<",">>, <<",", " ">>},
             link \in LinkTexts}

LinkHeaders == SeqsUpTo(LinkLexemes, MaxLinkLen) \cup LinkLists(MaxLinks)

LinkInit ==
    /\ hpc = "response"
    /\ header \in LinkHeaders
    /\ content_type = NoneObj
    /\ call = NoneObj
    /\ link_header = NoneObj

\* link_header = WebLinkHeader.from_value(value)
FromValue ==
    /\ hpc = "response"
    /\ link_header' = from_value(header)
    /\ hpc' = "links"
    /\ UNCHANGED <<header, content_type, call>>

\* link_header.rel(value)
Rel == \E value \in {<<"next">>, <<"u">>} :
    /\ hpc = "links"
    /\ call' = [method |-> "rel", parsed |-> TRUE, argument |-> value,
                returned |-> rel(link_header, value)]
    /\ hpc' = "called"
    /\ UNCHANGED <<header, content_type, link_header>>

-----------------------------------------------------------------------------
(***************************************************************************)
(* monocat.github.GitHubClient                                             *)
(***************************************************************************)
API_BODY_ENCODING == <<"utf-8">>
API_CONTENT_TYPE ==
    <<"application", "/", "vnd.github.v3+json", ";", " ", "charset", "=">> \o upper(API_BODY_ENCODING)

Token == "token"

\* a dict overlay {**f, **g}: g's entries override f's
Overlay(f, g) ==
    [k \in DOMAIN f \cup DOMAIN g |-> IF k \in DOMAIN g THEN g[k] ELSE f[k]]

NoHeaders == [k \in {} |-> << >>]

\* GitHubClient.base_headers
base_headers(token) ==
    [k \in {"User-Agent", "Authorization", "Accept"} |->
        CASE k = "User-Agent" -> <<"monocat">>
          [] k = "Authorization" -> <<"Basic", " ", token>>
          [] k = "Accept" -> <<"application", "/", "vnd.github.v3+json">>]

\* request_headers with the caller's headers below the API Content-Type
request_headers_caller_first(method, token, headers) ==
    IF method \in {"PATCH", "POST", "PUT"}
    THEN Overlay(Overlay(base_headers(token), headers),
                 [k \in {"Content-Type"} |-> API_CONTENT_TYPE])
    ELSE Overlay(base_headers(token), headers)

\* the headers _request sends
request_headers(method, token, headers) ==
    IF method \in {"PATCH", "POST", "PUT"}
    THEN Overlay(Overlay(base_headers(token),
                         [k \in {"Content-Type"} |-> API_CONTENT_TYPE]), headers)
    ELSE Overlay(base_headers(token), headers)

\* What a response body holds: text that is no JSON document, or a JSON
\* document: an API error message, a release, an asset.
Text == [kind |-> "text"]
ErrorDocument == [kind |-> "error"]

\* The codecs bytes.decode() knows
KnownCodecs == {<<"utf-8">>}

\* _request, from the response on: the decoding of the body and the
\* classification of the status.  An outcome either returns content or raises.
Return(content) == [kind |-> "return", content |-> content]
Raise(exception) == [kind |-> "raise", exception |-> exception]

GitHubClientError(http_status, http_reason, content) ==
    [class |-> "GitHubClientError", http_status |-> http_status,
     http_reason |-> http_reason, args |-> content]
Exception(class) ==
    [class |-> class, http_status |-> 0, http_reason |-> None, args |-> NoneObj]
NoException == Exception("none")

\* response.data.decode(charset); json.loads(...) when the content type is JSON
decode_as(resp, ct) ==
    IF lower(charset(ct, API_BODY_ENCODING)) \notin KnownCodecs
    THEN Raise(Exception("LookupError"))
    ELSE IF is_json(ct)
         THEN IF resp.data = Text
              THEN Raise(Exception("JSONDecodeError"))
              ELSE Return(resp.data)
         ELSE Return(Text)

decode_body(resp) == decode_as(resp, from_response(resp.content_type))

NOT_FOUND == 404
ErrorStatus == 400

\* the members of http.HTTPStatus among the statuses a server answers with
HTTPStatuses == {101, 200, 304, 400, 404, 500}

\* _request, the debug record: HTTPStatus(response.status) is evaluated for
\* the logger's arguments and raises ValueError for a status it does not know
log_status(resp, decoded) ==
    IF decoded.kind = "raise" THEN decoded
    ELSE IF resp.status \notin HTTPStatuses
         THEN Raise(Exception("ValueError"))
         ELSE decoded

\* classify raising for every status that is not 2xx
classify_non_2xx(resp, decoded) ==
    IF decoded.kind = "raise" THEN decoded
    ELSE IF resp.status < 200 \/ resp.status >= 300
         THEN Raise(GitHubClientError(resp.status, resp.reason, decoded.content))
         ELSE decoded

\* _request, after the decoding: the classification of the status
classify(resp, decoded) ==
    IF decoded.kind = "raise" THEN decoded
    ELSE IF resp.status >= ErrorStatus
         THEN Raise(GitHubClientError(resp.status, resp.reason, decoded.content))
         ELSE decoded

response_outcome(resp) == classify(resp, log_status(resp, decode_body(resp)))

\* ReleaseResponse.parse_obj / AssetResponse.parse_obj of what _request returned
parse_obj(model, outcome) ==
    IF outcome.kind = "raise" THEN outcome
    ELSE IF outcome.content.kind = model THEN outcome
         ELSE Raise(Exception("ValidationError"))

\* get_release / get_release_by_tag: the except clause
except_not_found(parsed) ==
    IF /\ parsed.kind = "raise"
       /\ parsed.exception.class = "GitHubClientError"
       /\ parsed.exception.http_status = NOT_FOUND
    THEN Return(NoneObj)
    ELSE parsed

\* get_release / get_release_by_tag, from what _request did on
get_release_outcome(transport) == except_not_found(parse_obj("release", transport))

\* the truth value of an atom (a str or None)
Truthy(x) == x \notin {None, ""}

\* ---- what the server may answer ----
Statuses == HTTPStatuses \cup {299, 599}
Reasons == {"Reason"}
ContentTypeHeaders == {NoHeader, <<"application", "/", "json">>}
ReleaseIds == {"1"}
TagNames == {"v0"}
ArtifactNames == {"a.txt", "b.txt"}
AssetNames == {"a.txt"}
AssetIds == {0, 1}

Assets == SeqsUpTo([name : AssetNames, id : AssetIds], MaxAssets)

\* the releases a lookup may find, and those a create or update may answer
FoundReleases ==
    {[kind |-> "release", id |-> i, tag_name |-> t, assets |-> << >>] :
        i \in ReleaseIds, t \in TagNames}
SavedReleases ==
    {[kind |-> "release", id |-> "1", tag_name |-> "v0", assets |-> a] : a \in Assets}
NewAsset(name) == [kind |-> "asset", name |-> name]

\* a response: an error status carries text or an API error message, and
\* a body that is not declared as JSON is text
Responses(documents) ==
    {r \in [status : Statuses, reason : Reasons, content_type : ContentTypeHeaders,
            data : {Text, ErrorDocument} \cup documents] :
        /\ r.status >= 400 => r.data \in {Text, ErrorDocument}
        /\ r.content_type = NoHeader => r.data = Text}

\* ---- _request's headers on their own ----
\* the methods _request is called with, and the headers a caller hands it:
\* none (headers=None) or a mapping over some of these keys
Methods == {"GET", "PATCH", "POST", "PUT", "DELETE"}
CallerKeys == {"Content-Type", "Accept", "X-Label"}
CallerValues == {<<"text", "/", "plain">>, <<"application", "/", "octet-stream">>}
CallerHeaders ==
    {[given |-> FALSE, headers |-> NoHeaders]} \cup
    {[given |-> TRUE, headers |-> h] :
        h \in UNION {[keys -> CallerValues] : keys \in SUBSET CallerKeys}}

\* headers = headers if headers else {}
headers_or_empty(caller) == IF caller.given THEN caller.headers ELSE NoHeaders

HeadersInit ==
    /\ hpc = "request"
    /\ header = NoHeader
    /\ content_type = NoneObj
    /\ call \in [method : Methods, headers : CallerHeaders, sent : {NoneObj}]
    /\ link_header = NoneObj

\* _request up to self.http.request(...): the headers handed to urllib3
SendHeaders ==
    /\ hpc = "request"
    /\ call' = [call EXCEPT
                   !.sent = request_headers(call.method, Token, headers_or_empty(call.headers))]
    /\ hpc' = "sent"
    /\ UNCHANGED <<header, content_type, link_header>>

\* a request as GitHubClient._request hands it to urllib3
Request(method, url, headers, body) ==
    [method |-> method, url |-> url,
     headers |-> request_headers(method, Token, headers), body |-> body]

-----------------------------------------------------------------------------
(***************************************************************************)
(* The command line                                                        *)
(***************************************************************************)
DefaultArguments ==
    [action |-> "get-release", id |-> None, tag |-> None, name |-> None,
     commit |-> None, body |-> None, draft |-> FALSE, prerelease |-> FALSE,
     artifacts |-> << >>]

\* get-release: exactly one of --id / --tag (a required exclusive group)
GetReleaseArguments ==
    {[DefaultArguments EXCEPT !.id = "7"], [DefaultArguments EXCEPT !.tag = "v1"]}

\* update-release: any of --id / --tag; the release options and the
\* artifacts are not varied together
UpdateReleaseArguments ==
    {a \in [action : {"update-release"}, id : {None, "7"}, tag : {None, "v1"},
            name : {None, "name"}, commit : {None, "", "commit"},
            body : {None, "", "body"},
            draft : BOOLEAN, prerelease : BOOLEAN,
            artifacts : SeqsUpTo(ArtifactNames, MaxArtifacts)] :
        \/ a.artifacts = << >>
        \/ a.name = None /\ a.commit = None /\ a.body = None /\ ~a.draft /\ ~a.prerelease}

Init ==
    /\ pc = "main"
    /\ arguments \in GetReleaseArguments \cup UpdateReleaseArguments
    /\ env_token \in {None, "", Token}
    /\ existing_release = Unbound
    /\ request = Unbound
    /\ release = Unbound
    /\ index = 0
    /\ response = << >>
    /\ open_files = 0
    /\ requests = << >>
    /\ last = NoneObj
    /\ raised = NoException
    /\ result = FALSE
    /\ exit = NoneObj
    /\ hpc = "idle"
    /\ header = NoHeader
    /\ content_type = NoneObj
    /\ call = NoneObj
    /\ link_header = NoneObj

\* Construct without the check of the token
Construct_unchecked ==
    /\ pc = "main"
    /\ pc' = "action"
    /\ last' = NoneObj
    /\ UNCHANGED <<arguments, env_token, existing_release, request, release, index,
                   response, open_files, requests, raised, result, exit, http_vars>>

\* release_manager = ReleaseManager(...): GitHubClient.__init__
Construct ==
    /\ pc = "main"
    /\ LET token == IF Truthy(None) THEN None ELSE env_token
       IN  IF ~Truthy(token)
           THEN raised' = Exception("EnvironmentError") /\ pc' = "raised"
           ELSE pc' = "action" /\ UNCHANGED raised
    /\ last' = NoneObj
    /\ UNCHANGED <<arguments, env_token, existing_release, request, release, index,
                   response, open_files, requests, result, exit, http_vars>>

\* One call of GitHubClient._request: the request is issued, the server
\* answers resp, and outcome is what _request returns or raises.
Call(req, resp, outcome) ==
    /\ requests' = Append(requests, req)
    /\ last' = [request |-> req, response |-> resp, outcome |-> outcome]

\* the lookup by tag even when an id is given
LookupRequest_by_tag_first(a) ==
    IF Truthy(a.tag)
    THEN Request("GET", <<"/releases/tags/", a.tag>>, NoHeaders, NoneObj)
    ELSE Request("GET", <<"/releases/", a.id>>, NoHeaders, NoneObj)

\* get_release(arguments.id) if arguments.id else get_release_by_tag(arguments.tag)
LookupRequest(a) ==
    IF Truthy(a.id)
    THEN Request("GET", <<"/releases/", a.id>>, NoHeaders, NoneObj)
    ELSE Request("GET", <<"/releases/tags/", a.tag>>, NoHeaders, NoneObj)

\* GetReleaseAction.__call__, from the lookup's outcome on
GetReleaseReturn(outcome) ==
    IF outcome.kind = "raise"
    THEN /\ raised' = outcome.exception
         /\ pc' = "raised"
         /\ UNCHANGED result
    ELSE /\ result' = (outcome.content # NoneObj)
         /\ pc' = "returned"
         /\ UNCHANGED raised

\* GetReleaseAction.__call__
GetRelease ==
    /\ pc = "action"
    /\ arguments.action = "get-release"
    /\ \E resp \in Responses(FoundReleases) :
          /\ Call(LookupRequest(arguments), resp, response_outcome(resp))
          /\ GetReleaseReturn(get_release_outcome(response_outcome(resp)))
    /\ UNCHANGED <<arguments, env_token, existing_release, request, release, index,
                   response, open_files, exit, http_vars>>

\* UpdateReleaseAction.__call__: the argument check
UsageError ==
    /\ pc = "action"
    /\ arguments.action = "update-release"
    /\ ~Truthy(arguments.id) /\ ~Truthy(arguments.tag)
    /\ raised' = Exception("SystemExit")
    /\ pc' = "raised"
    /\ last' = NoneObj
    /\ UNCHANGED <<arguments, env_token, existing_release, request, release, index,
                   response, open_files, requests, result, exit, http_vars>>

\* UpdateReleaseAction.__call__, from the lookup's outcome on
ResolveReturn(outcome) ==
    IF outcome.kind = "raise"
    THEN /\ raised' = outcome.exception
         /\ pc' = "raised"
         /\ UNCHANGED existing_release
    ELSE /\ existing_release' = outcome.content
         /\ pc' = "resolved"
         /\ UNCHANGED raised

\* UpdateReleaseAction.__call__: the lookup of the existing release
Resolve ==
    /\ pc = "action"
    /\ arguments.action = "update-release"
    /\ Truthy(arguments.id) \/ Truthy(arguments.tag)
    /\ \E resp \in Responses(FoundReleases) :
          /\ Call(LookupRequest(arguments), resp, response_outcome(resp))
          /\ ResolveReturn(get_release_outcome(response_outcome(resp)))
    /\ UNCHANGED <<arguments, env_token, request, release, index, response,
                   open_files, result, exit, http_vars>>

\* ReleaseRequest(tag_name=..., name=..., draft=..., prerelease=...) and the two
\* conditional assignments: the fields set and their values, or NoneObj when
\* pydantic rejects the required tag_name being None
ReleaseRequest(a, existing) ==
    LET existing_tag == IF existing # NoneObj THEN existing.tag_name ELSE None
        tag_name == IF Truthy(a.tag) THEN a.tag ELSE existing_tag
        name == IF Truthy(a.name) THEN a.name ELSE a.tag
        fields_set == {"tag_name", "name", "draft", "prerelease"}
                      \cup (IF Truthy(a.commit) THEN {"target_commitish"} ELSE {})
                      \cup (IF Truthy(a.body) THEN {"body"} ELSE {})
    IN  IF tag_name = None THEN NoneObj
        ELSE [fields_set |-> fields_set,
              tag_name |-> tag_name,
              target_commitish |-> IF Truthy(a.commit) THEN a.commit ELSE "",
              name |-> name,
              body |-> IF Truthy(a.body) THEN a.body ELSE "",
              draft |-> a.draft,
              prerelease |-> a.prerelease]

\* release.json(): the unset fields are serialized with their defaults
json_all_fields(r) ==
    [f \in {"tag_name", "target_commitish", "name", "body", "draft", "prerelease"} |-> r[f]]

\* release.json(exclude_unset=True)
json_exclude_unset(r) == [f \in r.fields_set |-> r[f]]

\* UpdateReleaseAction.__call__: the request cannot be built
InvalidRequest ==
    /\ pc = "resolved"
    /\ ReleaseRequest(arguments, existing_release) = NoneObj
    /\ raised' = Exception("ValidationError")
    /\ pc' = "raised"
    /\ last' = NoneObj
    /\ UNCHANGED <<arguments, env_token, existing_release, request, release, index,
                   response, open_files, requests, result, exit, http_vars>>

\* UpdateReleaseAction.__call__, from the outcome of create_release or
\* update_release on: a release object is true, so upload_assets is entered
SavedReturn(outcome) ==
    IF outcome.kind = "raise"
    THEN /\ raised' = outcome.exception
         /\ pc' = "raised"
         /\ UNCHANGED <<release, index>>
    ELSE /\ release' = outcome.content
         /\ index' = 1
         /\ pc' = "upload"
         /\ UNCHANGED raised

\* create_release / update_release: the request, and ReleaseResponse.parse_obj
Saved(req, resp) ==
    /\ Call(req, resp, response_outcome(resp))
    /\ SavedReturn(parse_obj("release", response_outcome(resp)))

\* release_manager.update_release(request, existing_release.id)
UpdateRelease ==
    /\ pc = "resolved"
    /\ ReleaseRequest(arguments, existing_release) # NoneObj
    /\ existing_release # NoneObj
    /\ request' = ReleaseRequest(arguments, existing_release)
    /\ \E resp \in Responses(SavedReleases) :
          Saved(Request("PATCH", <<"/releases/", existing_release.id>>, NoHeaders,
                        json_exclude_unset(request')), resp)
    /\ UNCHANGED <<arguments, env_token, existing_release, response, open_files,
                   result, exit, http_vars>>

\* release_manager.create_release(request)
CreateRelease ==
    /\ pc = "resolved"
    /\ ReleaseRequest(arguments, existing_release) # NoneObj
    /\ existing_release = NoneObj
    /\ request' = ReleaseRequest(arguments, existing_release)
    /\ \E resp \in Responses(SavedReleases) :
          Saved(Request("POST", <<"/releases">>, NoHeaders,
                        json_exclude_unset(request')), resp)
    /\ UNCHANGED <<arguments, env_token, existing_release, response, open_files,
                   result, exit, http_vars>>

\* existing_asset_ids_by_name.get(name): the id of the last asset of that name
existing_asset_id(assets, name) ==
    LET named == {k \in 1..Len(assets) : assets[k].name = name}
    IN  IF named = {} THEN NoneObj
        ELSE [id |-> assets[CHOOSE k \in named : \A l \in named : l <= k].id]

\* `not asset_id`: None and 0 are both false
not_asset_id(asset_id) == IF asset_id = NoneObj THEN TRUE ELSE asset_id.id = 0

\* mimetypes.guess_type(asset.name)[0] or 'application/octet-stream'
guess_type(name) == <<"text", "/", "plain">>

\* upload_assets: with open(artifact_path, 'rb') as artifact_file
OpenArtifact ==
    /\ pc = "upload"
    /\ index <= Len(arguments.artifacts)
    /\ \E readable \in BOOLEAN :
          IF readable
          THEN /\ open_files' = open_files + 1
               /\ pc' = "opened"
               /\ UNCHANGED raised
          ELSE /\ raised' = Exception("OSError")
               /\ pc' = "raised"
               /\ UNCHANGED open_files
    /\ last' = NoneObj
    /\ UNCHANGED <<arguments, env_token, existing_release, request, release, index,
                   response, requests, result, exit, http_vars>>

\* upload_assets: an asset of that name exists, nothing is uploaded
SkipArtifact ==
    /\ pc = "opened"
    /\ ~not_asset_id(existing_asset_id(release.assets, arguments.artifacts[index]))
    /\ open_files' = open_files - 1
    /\ index' = index + 1
    /\ pc' = "upload"
    /\ last' = NoneObj
    /\ UNCHANGED <<arguments, env_token, existing_release, request, release, response,
                   requests, raised, result, exit, http_vars>>

\* client.upload_asset: the request
UploadRequest(name) ==
    Request("POST", <<"upload_url", name>>,
            [k \in {"Content-Type"} |-> guess_type(name)], [file |-> name])

\* upload_assets, from the outcome of upload_asset on
UploadReturn(outcome) ==
    IF outcome.kind = "raise"
    THEN /\ raised' = outcome.exception
         /\ pc' = "raised"
         /\ UNCHANGED <<response, index>>
    ELSE /\ response' = Append(response, outcome.content)
         /\ index' = index + 1
         /\ pc' = "upload"
         /\ UNCHANGED raised

\* UploadAsset with the file closed by hand after the upload, not by a with block
UploadAsset_close_after_upload ==
    /\ pc = "opened"
    /\ not_asset_id(existing_asset_id(release.assets, arguments.artifacts[index]))
    /\ \E resp \in Responses({NewAsset(arguments.artifacts[index])}) :
          /\ Call(UploadRequest(arguments.artifacts[index]), resp, response_outcome(resp))
          /\ UploadReturn(parse_obj("asset", response_outcome(resp)))
          /\ open_files' = IF parse_obj("asset", response_outcome(resp)).kind = "raise"
                           THEN open_files
                           ELSE open_files - 1
    /\ UNCHANGED <<arguments, env_token, existing_release, request, release, result,
                   exit, http_vars>>

\* upload_assets: client.upload_asset(upload_url, asset, artifact_file.read())
UploadAsset ==
    /\ pc = "opened"
    /\ not_asset_id(existing_asset_id(release.assets, arguments.artifacts[index]))
    /\ \E resp \in Responses({NewAsset(arguments.artifacts[index])}) :
          /\ Call(UploadRequest(arguments.artifacts[index]), resp, response_outcome(resp))
          /\ UploadReturn(parse_obj("asset", response_outcome(resp)))
    /\ open_files' = open_files - 1
    /\ UNCHANGED <<arguments, env_token, existing_release, request, release, result,
                   exit, http_vars>>

\* Finish counting the artifacts gone through instead of the assets uploaded
Finish_counting_skipped ==
    /\ pc = "upload"
    /\ index > Len(arguments.artifacts)
    /\ result' = (index - 1 = Len(arguments.artifacts))
    /\ pc' = "returned"
    /\ last' = NoneObj
    /\ UNCHANGED <<arguments, env_token, existing_release, request, release, index,
                   response, open_files, requests, raised, exit, http_vars>>

\* UpdateReleaseAction.__call__: after upload_assets returned
Finish ==
    /\ pc = "upload"
    /\ index > Len(arguments.artifacts)
    /\ result' = (Len(response) = Len(arguments.artifacts))
    /\ pc' = "returned"
    /\ last' = NoneObj
    /\ UNCHANGED <<arguments, env_token, existing_release, request, release, index,
                   response, open_files, requests, raised, exit, http_vars>>

\* isinstance(e, ReleaseError)
IsReleaseError(e) == e.class = "ReleaseError"

\* main(): sys.exit(0 if response else 1)
Exit ==
    /\ pc = "returned"
    /\ exit' = [status |-> IF result THEN 0 ELSE 1, by |-> "sys.exit", logged |-> FALSE]
    /\ pc' = "exit"
    /\ last' = NoneObj
    /\ UNCHANGED <<arguments, env_token, existing_release, request, release, index,
                   response, open_files, requests, raised, result, http_vars>>

\* main(): an exception reaches the try statement
Except ==
    /\ pc = "raised"
    /\ exit' = IF IsReleaseError(raised)
               THEN [status |-> 1, by |-> "except ReleaseError", logged |-> TRUE]
               ELSE IF raised.class = "SystemExit"
                    THEN [status |-> 2, by |-> "sys.exit", logged |-> FALSE]
                    ELSE [status |-> 1, by |-> "uncaught", logged |-> FALSE]
    /\ pc' = "exit"
    /\ last' = NoneObj
    /\ UNCHANGED <<arguments, env_token, existing_release, request, release, index,
                   response, open_files, requests, raised, result, http_vars>>

Next ==
    \/ Construct
    \/ GetRelease
    \/ UsageError
    \/ Resolve
    \/ InvalidRequest
    \/ UpdateRelease
    \/ CreateRelease
    \/ OpenArtifact
    \/ SkipArtifact
    \/ UploadAsset
    \/ Finish
    \/ Exit
    \/ Except

Spec == Init /\ [][Next]_vars

-----------------------------------------------------------------------------
(* The parser on its own *)
InitHttp ==
    /\ pc = "idle"
    /\ arguments = DefaultArguments
    /\ env_token = None
    /\ existing_release = Unbound
    /\ request = Unbound
    /\ release = Unbound
    /\ index = 0
    /\ response = << >>
    /\ open_files = 0
    /\ requests = << >>
    /\ last = NoneObj
    /\ raised = NoException
    /\ result = FALSE
    /\ exit = NoneObj
    /\ HttpInit

NextHttp == FromResponse /\ UNCHANGED cli_vars

SpecHttp == InitHttp /\ [][NextHttp]_vars

-----------------------------------------------------------------------------
(* ContentType and its methods on their own *)
InitIdle ==
    /\ pc = "idle"
    /\ arguments = DefaultArguments
    /\ env_token = None
    /\ existing_release = Unbound
    /\ request = Unbound
    /\ release = Unbound
    /\ index = 0
    /\ response = << >>
    /\ open_files = 0
    /\ requests = << >>
    /\ last = NoneObj
    /\ raised = NoException
    /\ result = FALSE
    /\ exit = NoneObj

InitContentType == InitIdle /\ ContentTypeInit

NextContentType ==
    \/ FromResponse /\ UNCHANGED cli_vars
    \/ NewContentType /\ UNCHANGED cli_vars
    \/ Str /\ UNCHANGED cli_vars
    \/ Charset /\ UNCHANGED cli_vars
    \/ IsJson /\ UNCHANGED cli_vars

SpecContentType == InitContentType /\ [][NextContentType]_vars

-----------------------------------------------------------------------------
(* WebLinkHeader on its own *)
InitLink == InitIdle /\ LinkInit

NextLink ==
    \/ FromValue /\ UNCHANGED cli_vars
    \/ Rel /\ UNCHANGED cli_vars

SpecLink == InitLink /\ [][NextLink]_vars

-----------------------------------------------------------------------------
(* The headers of _request on their own *)
InitHeaders == InitIdle /\ HeadersInit

NextHeaders == SendHeaders /\ UNCHANGED cli_vars

SpecHeaders == InitHeaders /\ [][NextHeaders]_vars

-----------------------------------------------------------------------------
(***************************************************************************)
(* Properties                                                              *)
(***************************************************************************)
\* the positions in requests of the asset uploads, of the PATCHes and of the
\* POSTs to the releases collection
UploadRequests ==
    {i \in 1..Len(requests) :
        requests[i].method = "POST" /\ requests[i].url[1] = "upload_url"}
PatchRequests == {i \in 1..Len(requests) : requests[i].method = "PATCH"}
CreateRequests ==
    {i \in 1..Len(requests) :
        requests[i].method = "POST" /\ requests[i].url = <<"/releases">>}

\* upload_assets has been entered
InUploadAssets == arguments.action = "update-release" /\ index >= 1

\* the names of the assets on the release handed to upload_assets
ExistingNames == {release.assets[k].name : k \in 1..Len(release.assets)}

\* the artifacts gone through so far without an upload: index advances past
\* an artifact when it is skipped or when its upload has returned
Skips == index - 1 - Len(response)

\* the step just taken called _request
Requested == last # NoneObj

\* C1 (as claimed): upload_assets issues an upload request for an artifact
\* if and only if no asset of the release has the artifact's base name,
\* whatever id that asset carries: of the artifacts gone through, exactly
\* those whose name is not on the release have been uploaded.
C1_UploadIffNameAbsent ==
    InUploadAssets =>
        \A k \in 1..(index - 1) :
            (\E i \in UploadRequests : requests[i].url[2] = arguments.artifacts[k])
            <=> arguments.artifacts[k] \notin ExistingNames

\* what C2 says of the action once it has returned
C2_Returned ==
    /\ \A k \in 1..Len(arguments.artifacts) :
          arguments.artifacts[k] \notin ExistingNames =>
              \E i \in UploadRequests : requests[i].url[2] = arguments.artifacts[k]
    /\ Cardinality(UploadRequests) = Len(arguments.artifacts) - Skips
    /\ Len(response) = Cardinality(UploadRequests)
    /\ result = FALSE

LookedUp == Requested /\ last.request.method = "GET"

\* C3 (as claimed): for get_release and get_release_by_tag a 404 response
\* yields None and no exception, and every other response with a 4xx/5xx
\* status raises GitHubClientError with the response's status.
C3_NotFoundIsNone ==
    LookedUp =>
        /\ last.response.status = NOT_FOUND =>
              /\ pc # "raised" /\ raised = NoException
              /\ pc = "resolved" => existing_release = NoneObj
              /\ pc = "returned" => ~result
        /\ (last.response.status >= 400 /\ last.response.status # NOT_FOUND) =>
              /\ pc = "raised"
              /\ raised.class = "GitHubClientError"
              /\ raised.http_status = last.response.status

\* C4 (as claimed): in update-release with --id or --tag given, a lookup that
\* finds a release is followed by exactly one PATCH against that release's id
\* and no POST to the releases collection, and a lookup that finds none by
\* exactly one POST to the releases collection and no PATCH.
C4_PatchOrPost ==
    (/\ arguments.action = "update-release"
     /\ existing_release # Unbound
     /\ pc # "resolved") =>
        IF existing_release # NoneObj
        THEN /\ Cardinality(PatchRequests) = 1
             /\ \A i \in PatchRequests :
                   requests[i].url = <<"/releases/", existing_release.id>>
             /\ CreateRequests = {}
        ELSE /\ Cardinality(CreateRequests) = 1
             /\ PatchRequests = {}

\* the step just taken sent the ReleaseRequest
SentRelease == Requested /\ last.request.method \in {"PATCH", "POST"}
                         /\ last.request.url[1] # "upload_url"

\* what C5 says of every field but tag_name: the four fields always, the
\* two others only if supplied, and then with the value supplied (an empty
\* --commit or --body counts as not supplied to the request)
C5_Body(b) ==
    /\ DOMAIN b = request.fields_set
    /\ {"tag_name", "name", "draft", "prerelease"} \subseteq DOMAIN b
    /\ DOMAIN b \subseteq {"tag_name", "name", "draft", "prerelease", "target_commitish", "body"}
    /\ b.name = (IF arguments.name # None THEN arguments.name ELSE arguments.tag)
    /\ b.draft = arguments.draft
    /\ b.prerelease = arguments.prerelease
    /\ "target_commitish" \in DOMAIN b <=> Truthy(arguments.commit)
    /\ "body" \in DOMAIN b <=> Truthy(arguments.body)
    /\ Truthy(arguments.commit) => b.target_commitish = arguments.commit
    /\ Truthy(arguments.body) => b.body = arguments.body

\* C5 (as claimed): the body sent by create_release and update_release holds
\* exactly the fields set on the ReleaseRequest: tag_name, name, draft and
\* prerelease taken from the caller's input, target_commitish only if a commit
\* was supplied and body only if a body was supplied.
C5_BodyFromInput ==
    SentRelease =>
        /\ C5_Body(last.request.body)
        /\ last.request.body.tag_name = arguments.tag

\* C5 (amended): as claimed, but tag_name is the caller's --tag when one is
\* given and the tag_name of the existing release otherwise.
C5_BodyFromInputOrExisting ==
    SentRelease =>
        /\ C5_Body(last.request.body)
        /\ last.request.body.tag_name =
              (IF arguments.tag # None THEN arguments.tag ELSE existing_release.tag_name)

\* C5 witness: a PATCH without --tag, with a commit and without a body
C5_Witness ==
    /\ SentRelease /\ last.request.method = "PATCH"
    /\ arguments.tag = None /\ arguments.commit = "commit" /\ arguments.body = None
    /\ last.request.body.tag_name = "v0"
    /\ DOMAIN last.request.body = {"tag_name", "name", "draft", "prerelease", "target_commitish"}

\* C6 (as claimed): whenever the response status is >= 400, whatever the
\* content type and body, _request raises GitHubClientError carrying the
\* status, the reason phrase and the decoded body.
C6_ErrorStatusRaises ==
    (Requested /\ last.response.status >= 400) =>
        /\ last.outcome.kind = "raise"
        /\ last.outcome.exception.class = "GitHubClientError"
        /\ last.outcome.exception.http_status = last.response.status
        /\ last.outcome.exception.http_reason = last.response.reason
        /\ last.outcome.exception.args \in {Text, ErrorDocument}

\* _request raised GitHubClientError
Classified == last.outcome.kind = "raise" /\ last.outcome.exception.class = "GitHubClientError"

\* C7 (as claimed): _request raises a classified error for every response
\* whose status is not 2xx, 1xx and 3xx included, and only 2xx responses
\* return content.
C7_Non2xxRaises ==
    Requested =>
        /\ (last.response.status < 200 \/ last.response.status >= 300) => Classified
        /\ last.outcome.kind = "return" =>
              (last.response.status >= 200 /\ last.response.status < 300)

\* C7 (amended): _request raises a classified error only for a response whose
\* status is >= 400; a response with a status below 400, 1xx and 3xx
\* included, is never classified as an error: _request returns its decoded
\* content, unless the body cannot be decoded or the status is no member of
\* HTTPStatus, which raise errors of other classes.
C7_Below400Returns ==
    Requested =>
        /\ Classified => last.response.status >= 400
        /\ last.outcome.kind = "return" => last.response.status < 400
        /\ (last.response.status < 400 /\ last.outcome.kind = "raise") =>
              /\ last.outcome.exception.class \in {"JSONDecodeError", "LookupError", "ValueError"}
              /\ \/ decode_body(last.response).kind = "raise"
                 \/ last.response.status \notin HTTPStatuses
        /\ (last.response.status < 400 /\ last.outcome.kind = "return") =>
              last.outcome = decode_body(last.response)

\* C7 witness: a 3xx response whose content is returned
C7_Witness ==
    /\ Requested /\ last.response.status = 304
    /\ last.outcome.kind = "return" /\ pc # "raised"

\* C8: with no token parameter and no token in the environment the
\* construction raises the configuration error, and no request is issued
\* before or after it.
C8_NoTokenNoRequest ==
    ~Truthy(env_token) =>
        /\ requests = << >>
        /\ pc \in {"main", "raised", "exit"}
        /\ pc # "main" => raised = Exception("EnvironmentError")

\* C8 witness: the invocation ended on the configuration error
C8_Witness ==
    /\ ~Truthy(env_token) /\ pc = "exit"
    /\ raised.class = "EnvironmentError" /\ requests = << >>

\* C9 (as claimed): the configuration error and every transport error
\* surface to main(), which handles them by logging a message and ending the
\* process with a non-zero status.
C9_MainLogsErrors ==
    (pc = "exit" /\ raised.class \in {"EnvironmentError", "GitHubClientError"}) =>
        /\ exit.by = "except ReleaseError"
        /\ exit.logged
        /\ exit.status # 0

\* the pattern type/subtype[; attribute=value]: a type without "/" and
\* space, a subtype without ";" and space, and either nothing more or
\* spaces, a ";", at least one character up to the first "=" and at least
\* one character after it
MatchesPattern(s) ==
    \E i \in 1..Len(s), j \in 1..Len(s) :
        /\ \A k \in 1..i : s[k] \notin {"/", " "}
        /\ i + 1 <= Len(s) /\ s[i + 1] = "/"
        /\ j >= i + 2
        /\ \A k \in (i + 2)..j : s[k] \notin {";", " "}
        /\ \/ j = Len(s)
           \/ \E semi \in (j + 1)..Len(s), e \in (j + 1)..Len(s) :
                 /\ \A k \in (j + 1)..(semi - 1) : s[k] = " "
                 /\ s[semi] = ";"
                 /\ e >= semi + 2 /\ e < Len(s)
                 /\ s[e] = "="
                 /\ \A k \in (semi + 1)..(e - 1) : s[k] # "="

TextPlain == [type |-> <<"text">>, subtype |-> <<"plain">>,
              attribute |-> NoneStr, value |-> NoneStr]

\* C10: from_response never fails; for a header that is absent, empty or
\* does not match the pattern the result is text/plain with no attribute and
\* no value; for a header that matches, attribute and value are both present
\* or both absent.
C10_DefaultsToTextPlain ==
    hpc = "parsed" =>
        /\ DOMAIN content_type = {"type", "subtype", "attribute", "value"}
        /\ (header = NoHeader \/ header = << >> \/ ~MatchesPattern(header)) =>
              content_type = TextPlain
        /\ (header # NoHeader /\ MatchesPattern(header)) =>
              /\ content_type.attribute = NoneStr <=> content_type.value = NoneStr
              /\ content_type.type # << >> /\ content_type.subtype # << >>

\* C10 witness: a header that is not empty and does not match
C10_Witness ==
    /\ hpc = "parsed" /\ header # NoHeader /\ Len(header) >= 3
    /\ header[2] = "/" /\ ~MatchesPattern(header)
    /\ content_type = TextPlain

\* a method of ContentType has returned
Returned(method) == hpc = "called" /\ call.method = method

\* a header of the form type/subtype and nothing more
TypeSubtype(s) ==
    \E i \in 1..Len(s) :
        /\ \A k \in 1..i : s[k] \notin {"/", " "}
        /\ i + 2 <= Len(s) /\ s[i + 1] = "/"
        /\ \A k \in (i + 2)..Len(s) : s[k] \notin {";", " "}

\* s is type/subtype, a ";" with spaces around it, and one attribute=value:
\* j is the last position of the subtype, b the first of the attribute
OneParameter(s, j, b) ==
    \E i \in 1..Len(s), semi \in 1..Len(s), e \in 1..Len(s) :
        /\ \A k \in 1..i : s[k] \notin {"/", " "}
        /\ i + 1 <= Len(s) /\ s[i + 1] = "/" /\ j >= i + 2
        /\ \A k \in (i + 2)..j : s[k] \notin {";", " "}
        /\ semi > j /\ s[semi] = ";" /\ b > semi
        /\ \A k \in (j + 1)..(semi - 1) : s[k] = " "
        /\ \A k \in (semi + 1)..(b - 1) : s[k] = " "
        /\ s[b] # " " /\ e > b /\ s[e] = "=" /\ e < Len(s)
        /\ \A k \in b..(e - 1) : s[k] # "="

\* C11: a header type/subtype without parameters, parsed by from_response
\* and stringified, gives the header back unchanged; a header with a single
\* attribute=value parameter is stringified as "type/subtype; attribute=value".
C11_RoundTrip ==
    (Returned("__str__") /\ call.parsed /\ header # NoHeader) =>
        /\ TypeSubtype(header) => call.returned = header
        /\ \A j \in 1..Len(header), b \in 1..Len(header) :
              OneParameter(header, j, b) =>
                  call.returned = Slice(header, 1, j) \o <<";", " ">>
                                  \o Slice(header, b, Len(header))

\* C11 witness: application/json;charset=utf-8 stringified with the space
C11_Witness ==
    /\ Returned("__str__") /\ call.parsed
    /\ header = <<"application", "/", "json", ";", "charset", "=", "utf-8">>
    /\ call.returned = <<"application", "/", "json", ";", " ", "charset", "=", "utf-8">>

\* C12: charset(default) returns the value verbatim when the attribute is
\* 'charset' in any case and the value is not empty, and the upper-cased
\* default otherwise, the default being 'UTF-8' when the caller gives none.
C12_CharsetOrDefault ==
    Returned("charset") =>
        call.returned =
            IF /\ content_type.attribute \in {<<"charset">>, <<"Charset">>}
               /\ content_type.value \notin {NoneStr, << >>}
            THEN content_type.value
            ELSE CASE call.argument = NotGiven -> <<"UTF-8">>
                   [] call.argument = <<"utf-8">> -> <<"UTF-8">>
                   [] call.argument = <<"json">> -> <<"JSON">>

\* C12 witness: the attribute in another case, the value returned in its own case
C12_Witness ==
    /\ Returned("charset") /\ call.argument = <<"utf-8">>
    /\ content_type.attribute = <<"Charset">> /\ content_type.value = <<"JSON">>
    /\ call.returned = <<"JSON">>

\* C13: is_json() is true if and only if type/subtype, lower-cased, is
\* application/json, whatever the attribute and the value.
C13_IsJsonIffApplicationJson ==
    Returned("is_json") =>
        call.returned = (/\ content_type.type = <<"application">>
                         /\ content_type.subtype \in {<<"json">>, <<"JSON">>})

\* C13 witness: application/JSON with an attribute and a value is JSON
C13_Witness ==
    /\ Returned("is_json") /\ ~call.parsed /\ call.returned
    /\ content_type.subtype = <<"JSON">>
    /\ content_type.attribute = <<"json">> /\ content_type.value = <<"JSON">>

\* C14 (as claimed): is_json() is true only for application/json and false
\* for every other content type, the one parsed from a header of the form
\* "application/json; charset=..." included.
C14_FalseWithCharset ==
    (Returned("is_json") /\ call.parsed) =>
        call.returned = (lower(getheader(header)) = <<"application", "/", "json">>)

\* C14 (amended): is_json() is true for the type/subtype application/json in
\* any case, with or without a parameter, so also for the content type parsed
\* from "application/json; charset=...", and false for every other
\* type/subtype.
C14_TrueWithCharset ==
    (Returned("is_json") /\ call.parsed) =>
        call.returned =
            (/\ header # NoHeader /\ Len(header) >= 3
             /\ lower(Slice(header, 1, 3)) = <<"application", "/", "json">>
             /\ \/ Len(header) = 3
                \/ header[4] \in {";", " "} /\ MatchesPattern(header))

\* C14 witness: application/JSON; charset=utf-8 is JSON
C14_Witness ==
    /\ Returned("is_json") /\ call.parsed /\ call.returned
    /\ header = <<"application", "/", "JSON", ";", " ", "charset", "=", "utf-8">>

\* the header has been parsed into links
Linked == hpc = "links" \/ (hpc = "called" /\ call.method = "rel")

\* the positions of the "<" of the bracketed <url> tokens of s: a "<" with a
\* ">" after at least one character, outside every earlier token
UrlTokens(s) ==
    {o \in 1..Len(s) :
        /\ s[o] = "<"
        /\ find(s, ">", o + 1) > o + 1
        /\ \A b \in 1..(o - 1) : s[b] = "<" => find(s, ">", b + 1) < o}

\* the i-th token of s in header order
NthToken(s, i) ==
    CHOOSE o \in UrlTokens(s) : Cardinality({b \in UrlTokens(s) : b < o}) = i - 1

\* the text between the end of the token at o and the next token (without the
\* ", " that separates the links) or the end of the string: its last position
ParamsLast(s, o) ==
    IF \E b \in UrlTokens(s) : b > o
    THEN LET next == CHOOSE b \in UrlTokens(s) : b > o /\ \A c \in UrlTokens(s) : c > o => b <= c
             comma == CHOOSE k \in 0..(next - 1) :
                         /\ \A l \in (k + 1)..(next - 1) : s[l] = " "
                         /\ k > 0 => s[k] # " "
         IN  IF comma > 0 /\ s[comma] = "," THEN comma - 1 ELSE next - 1
    ELSE Len(s)

\* the ";" of s[lo..hi] that separate parameters: those outside double quotes
Separators(s, lo, hi) ==
    {k \in lo..hi :
        /\ s[k] = ";"
        /\ Cardinality({l \in lo..(k - 1) : s[l] = "\""}) % 2 = 0}

\* the key=value pairs found in s[lo..hi], as <<first position, key, value>>:
\* one per text between separators that holds an "="
Pairs(s, lo, hi) ==
    {<<x, Slice(s, skip_spaces(s, x), find(s, "=", x) - 1), strip(Slice(s, find(s, "=", x) + 1, y))>> :
        <<x, y>> \in
            {<<a, b>> \in (lo..(hi + 1)) \X ((lo - 1)..hi) :
                /\ a = lo \/ (a - 1) \in Separators(s, lo, hi)
                /\ b = hi \/ (b + 1) \in Separators(s, lo, hi)
                /\ a <= b
                /\ \A k \in a..b : k \notin Separators(s, lo, hi)
                /\ find(s, "=", a) > 0 /\ find(s, "=", a) <= b}}

\* the mapping the pairs make, as a set of <<key, value>>: a later pair
\* replaces an earlier one of the same key
Mapping(pairs) ==
    {<<p[2], p[3]>> : p \in {q \in pairs : \A r \in pairs : r[2] = q[2] => r[1] <= q[1]}}

\* a mapping of the model as a set of <<key, value>>
Items(d) == {<<k, d[k]>> : k \in DOMAIN d}

\* C15 (as claimed): from_value yields one link per bracketed <url> token, in
\* header order, and each link's params are the key=value pairs found between
\* the end of its token and the start of the next (or the end of the string),
\* separated by ";" outside double quotes, every value stripped of the quotes
\* and spaces around it; a link without parameters has the empty mapping.
C15_OneLinkPerToken ==
    Linked =>
        /\ Len(link_header) = Cardinality(UrlTokens(header))
        /\ \A i \in 1..Len(link_header) :
              /\ link_header[i].url =
                    Slice(header, NthToken(header, i) + 1,
                          find(header, ">", NthToken(header, i) + 1) - 1)
              /\ Items(link_header[i].params) =
                    Mapping(Pairs(header, find(header, ">", NthToken(header, i) + 1) + 1,
                                  ParamsLast(header, NthToken(header, i))))

\* C16: rel(name) returns the last link in header order whose rel parameter
\* equals name, and None when no link has that rel.
C16_RelIsLast ==
    (hpc = "called" /\ call.method = "rel") =>
        LET matching == {i \in 1..Len(link_header) :
                            <<<<"rel">>, call.argument>> \in Items(link_header[i].params)}
        IN  IF matching = {} THEN call.returned = NoneObj
            ELSE \E i \in matching :
                    /\ \A j \in matching : j <= i
                    /\ call.returned = link_header[i]

\* C16 witness: two links of the same rel and different URLs, the later returned
C16_Witness ==
    /\ hpc = "called" /\ call.method = "rel"
    /\ header = <<"<", "u", ">", ";", "rel", "=", "next", ",", " ",
                  "<", "next", ">", ";", "rel", "=", "next">>
    /\ call.argument = <<"next">>
    /\ call.returned = [url |-> <<"next">>, params |-> [k \in {<<"rel">>} |-> <<"next">>]]

\* C17: the headers _request sends are the base headers, overlaid by the API
\* Content-Type for PATCH, POST and PUT only (never for GET), overlaid by the
\* caller's headers: on a key collision the later entry wins, so a
\* Content-Type of the caller, as upload_asset's, replaces the API one.
C17_HeaderOverlay ==
    hpc = "sent" =>
        LET caller == IF call.headers.given THEN call.headers.headers ELSE NoHeaders
            mutating == call.method \in {"PATCH", "POST", "PUT"}
        IN  /\ DOMAIN call.sent =
                  {"User-Agent", "Authorization", "Accept"}
                  \cup (IF mutating THEN {"Content-Type"} ELSE {})
                  \cup DOMAIN caller
            /\ \A k \in DOMAIN call.sent :
                  call.sent[k] =
                      IF k \in DOMAIN caller THEN caller[k]
                      ELSE IF k = "Content-Type"
                           THEN <<"application", "/", "vnd.github.v3+json", ";", " ",
                                  "charset", "=", "UTF-8">>
                           ELSE base_headers(Token)[k]
            /\ (call.method = "GET" /\ "Content-Type" \notin DOMAIN caller) =>
                  "Content-Type" \notin DOMAIN call.sent

\* C17 witness: a POST with the caller's Content-Type, as upload_asset's
C17_Witness ==
    /\ hpc = "sent" /\ call.method = "POST"
    /\ call.headers.given /\ DOMAIN call.headers.headers = {"Content-Type"}
    /\ call.sent["Content-Type"] = <<"text", "/", "plain">>
    /\ call.sent["Accept"] = <<"application", "/", "vnd.github.v3+json">>

\* the upload requests issued so far follow the artifacts supplied, in their
\* order: there is an increasing choice of artifact positions, one per upload
\* request, among the artifacts reached, such that each request carries its
\* artifact's name and every artifact passed over was skipped for an asset of
\* its name on the release
UploadsInOrder ==
    \E f \in [1..(Len(requests) - 2) -> 1..Len(arguments.artifacts)] :
        /\ \A i \in DOMAIN f : \A j \in DOMAIN f : i < j => f[i] < f[j]
        /\ \A i \in DOMAIN f :
              /\ f[i] <= index
              /\ requests[i + 2].method = "POST"
              /\ requests[i + 2].url = <<"upload_url", arguments.artifacts[f[i]]>>
        /\ \A k \in 1..(index - 1) :
              (k <= Len(arguments.artifacts) /\ \A i \in DOMAIN f : f[i] # k)
                  => arguments.artifacts[k] \in ExistingNames

\* the requests issued so far are a prefix of lookup, create-or-update, uploads
C18_Prefix ==
    arguments.action = "update-release" =>
        /\ Len(requests) >= 1 =>
              /\ requests[1].method = "GET"
              /\ requests[1].url = IF arguments.id # None
                                   THEN <<"/releases/", arguments.id>>
                                   ELSE <<"/releases/tags/", arguments.tag>>
        /\ Len(requests) >= 2 =>
              /\ requests[2].method \in {"PATCH", "POST"}
              /\ requests[2].url[1] \in {"/releases", "/releases/"}
        /\ Len(requests) >= 3 => (release # Unbound /\ UploadsInOrder)
        /\ pc = "returned" =>
              /\ Len(requests) >= 2 /\ index = Len(arguments.artifacts) + 1
              /\ UploadsInOrder

\* once an error has been raised no request is issued
C18_Stop == raised # NoException => requests' = requests

\* C18: in every execution of update-release the requests issued form a
\* prefix of: one lookup GET (by id when an id is given, otherwise by tag),
\* one create-or-update request, one upload POST per artifact that is not
\* skipped, in the order the artifacts were supplied; after an error has been
\* raised no further request is issued.
C18_RequestSequence == [](C18_Prefix) /\ [][C18_Stop]_vars

\* C18 witness: lookup, create-or-update, one upload, and a second upload
\* that raised and ended the sequence
C18_Witness ==
    /\ arguments.action = "update-release" /\ pc = "raised"
    /\ arguments.artifacts = <<"a.txt", "b.txt">>
    /\ Len(requests) = 4 /\ index = 2
    /\ requests[3].url = <<"upload_url", "a.txt">>
    /\ requests[4].url = <<"upload_url", "b.txt">>
    /\ raised.class = "GitHubClientError"

\* C19: during upload_assets at most one artifact file handle is open at any
\* time: the handle is open exactly while the body of the with block runs for
\* that artifact, it is released when the block is left, whether the artifact
\* was skipped, its upload returned or its upload raised, and once
\* upload_assets has returned or raised no handle remains open.
C19_HandleScoped ==
    /\ open_files \in {0, 1}
    /\ open_files = 1 <=> pc = "opened"
    /\ pc \in {"returned", "raised", "exit"} => open_files = 0

\* C19 witness: the upload of the first artifact raised, upload_assets ended
\* by raising and the artifact's handle is closed
C19_Witness ==
    /\ InUploadAssets /\ pc = "raised" /\ index = 1
    /\ Len(requests) = 3 /\ 3 \in UploadRequests
    /\ raised # NoException
    /\ open_files = 0

\* C20 (as claimed): within one upload_assets invocation no asset name is
\* uploaded more than once: no two upload requests carry the same name.
C20_OneUploadPerName ==
    \A i \in UploadRequests : \A j \in UploadRequests :
        i # j => requests[i].url # requests[j].url

\* the lookup just made found a release: the answer carries a release document
FoundRelease == last.response.data \in FoundReleases

\* C21 (as claimed): the get-release action returns true, and the process
\* exits with status 0, if and only if the lookup found a release; when the
\* lookup answers 404 the action raises nothing and returns false, and the
\* process exits with status 1.
C21_TrueIffFound ==
    arguments.action = "get-release" =>
        /\ LookedUp =>
              /\ (pc = "returned" /\ result) <=> FoundRelease
              /\ last.response.status = NOT_FOUND =>
                    (pc = "returned" /\ ~result /\ raised = NoException)
        /\ (pc = "exit" /\ raised = NoException) =>
              exit.status = (IF result THEN 0 ELSE 1)

=============================================================================
